---- MODULE Spec2Model ----
(***************************************************************************)
(* Scene construction of the ray tracer: Model::load extracts the          *)
(* triangles of an OBJ file into the global triangle array, Bvh::build     *)
(* appends the bounding volume hierarchy of that range to the global node  *)
(* array, and LoadedModels::load drives both once per file.                *)
(*                                                                         *)
(* Numbers.  Coordinates are f32 in the code.  The model uses integers:    *)
(* an f32 operation rounds its result to 24 significant bits, ties to      *)
(* even, so that it is exact below 2^24 and rounds above; f64 operations   *)
(* are exact on the values of the model.  A split position                 *)
(* min + ((i+1)/6)*delta is kept in sixths (an integer), which orders      *)
(* against integer coordinates exactly as the rounded f32 value does for   *)
(* non-negative bounds below 80, and for a node of extent 0 on the axis.   *)
(* The infinities and NaN are kept as values of their own, because the     *)
(* code relies on 0 * inf = NaN to discard a candidate split with an empty *)
(* side.                                                                   *)
(***************************************************************************)
EXTENDS Integers, Sequences, FiniteSets, TLC

\* ------------------------------------------------------------ bounds
\* Faces of a file of the generated scenes.
MaxTris == 4

\* ------------------------------------------------------- f32 / f64 values
INFINITY == 1000000000
NEG_INFINITY == 0 - INFINITY
NaN == 2000000000

IsFinite(x) == x # INFINITY /\ x # NEG_INFINITY /\ x # NaN

Sgn(x) == IF x > 0 THEN 1 ELSE IF x < 0 THEN -1 ELSE 0

\* Significant bits of an f32
MANTISSA_DIGITS == 24

\* The distance between the f32 values around the magnitude m
RECURSIVE Ulp(_)
Ulp(m) == IF m < 2 ^ MANTISSA_DIGITS THEN 1 ELSE 2 * Ulp(m \div 2)

\* The f32 nearest to the integer x, ties to the even significand
RoundF32(x) ==
    IF ~IsFinite(x) THEN x
    ELSE LET m == IF x < 0 THEN 0 - x ELSE x
             ulp == Ulp(m)
             q == m \div ulp
             r == m % ulp
             up == 2 * r > ulp \/ (2 * r = ulp /\ q % 2 = 1)
         IN  Sgn(x) * (IF up THEN q + 1 ELSE q) * ulp

\* IEEE addition on integers extended with the infinities and NaN, exact
\* (f64 on the values of the model).
DAdd(a, b) ==
    IF a = NaN \/ b = NaN THEN NaN
    ELSE IF IsFinite(a) /\ IsFinite(b) THEN a + b
    ELSE IF IsFinite(a) THEN b
    ELSE IF IsFinite(b) THEN a
    ELSE IF a = b THEN a ELSE NaN

\* IEEE multiplication, exact: 0 * inf is NaN.
DMul(a, b) ==
    IF a = NaN \/ b = NaN THEN NaN
    ELSE IF IsFinite(a) /\ IsFinite(b) THEN a * b
    ELSE IF a = 0 \/ b = 0 THEN NaN
    ELSE IF Sgn(a) * Sgn(b) > 0 THEN INFINITY ELSE NEG_INFINITY

\* a + b on f32
FAdd(a, b) == RoundF32(DAdd(a, b))

FNeg(a) == IF a = NaN THEN NaN ELSE 0 - a

\* a - b on f32
FSub(a, b) == FAdd(a, FNeg(b))

\* a * b on f32
FMul(a, b) == RoundF32(DMul(a, b))

\* a.mul_add(b, c) on f32: a * b + c rounded once
FMulAdd(a, b, c) == RoundF32(DAdd(DMul(a, b), c))

\* Variant of FLess: !(a >= b), true as soon as one side is NaN.
FLess_unordered(a, b) == a = NaN \/ b = NaN \/ a < b

\* a < b of IEEE: false as soon as one side is NaN.
FLess(a, b) == a # NaN /\ b # NaN /\ a < b

FMin(a, b) == IF a < b THEN a ELSE b
FMax(a, b) == IF a > b THEN a ELSE b

\* The width of the indices stored in Bvh and Model (u32).
IndexBits == 32

\* The width of the same indices in the specification that scales it down,
\* for the arrays to outgrow it.
NarrowBits == 3

\* The width of the index type in this behaviour
VARIABLE index_bits

\* u32::try_from(n) succeeds: 0 <= n < 2^index_bits, on half-width digits
\* so that no intermediate value leaves the 32-bit integers of TLC.
U32Fits(n) ==
    n >= 0 /\ n \div (2 ^ (index_bits \div 2)) < 2 ^ (index_bits - index_bits \div 2)

\* ------------------------------------------------------------ Bvh
Axes == 1..3

\* The number of different split positions to test.
SPLIT_TEST_COUNT == 5
\* The minimum number of triangles in a leaf node.
MIN_TRIANGLES == 2

\* Bvh::bvh_cost
bvh_cost(min_bound, max_bound, count) ==
    LET dx == FSub(max_bound[1], min_bound[1])
        dy == FSub(max_bound[2], min_bound[2])
        dz == FSub(max_bound[3], min_bound[3])
        surface_area == FMulAdd(dx, FAdd(dy, dz), FMul(dy, dz))
    IN  DMul(count, surface_area)

\* Bvh::grow_to_include, on the pair <<min_bound, max_bound>>
grow_to_include(box, point) ==
    << << FMin(box[1][1], point[1]), FMin(box[1][2], point[2]), FMin(box[1][3], point[3]) >>,
       << FMax(box[2][1], point[1]), FMax(box[2][2], point[2]), FMax(box[2][3], point[3]) >> >>

\* for vertex in triangle.vertices { grow_to_include(.., &vertex) }
GrowTriangle(box, triangle) ==
    grow_to_include(
        grow_to_include(
            grow_to_include(box, triangle.vertices[1]),
            triangle.vertices[2]),
        triangle.vertices[3])

\* Variant of IsLeft: .all in place of .any.
IsLeft_all(triangle, split_axis, split_position) ==
    /\ 6 * triangle.vertices[1][split_axis] < split_position
    /\ 6 * triangle.vertices[2][split_axis] < split_position
    /\ 6 * triangle.vertices[3][split_axis] < split_position

\* .any(|vertex| vertex[split_axis] < split_position), the position in sixths
IsLeft(triangle, split_axis, split_position) ==
    \/ 6 * triangle.vertices[1][split_axis] < split_position
    \/ 6 * triangle.vertices[2][split_axis] < split_position
    \/ 6 * triangle.vertices[3][split_axis] < split_position

EmptyBox == << <<INFINITY, INFINITY, INFINITY>>,
               <<NEG_INFINITY, NEG_INFINITY, NEG_INFINITY>> >>

\* Variant of SplitSides: a triangle is left when all its vertices are below.
RECURSIVE SplitSides_all_below(_, _, _, _)
SplitSides_all_below(split_axis, split_position, tris, n) ==
    IF n = 0
    THEN [left |-> EmptyBox, right |-> EmptyBox, count_left |-> 0, count_right |-> 0]
    ELSE LET acc == SplitSides_all_below(split_axis, split_position, tris, n - 1)
             t == tris[n]
         IN  IF \A v \in 1..3 : 6 * t.vertices[v][split_axis] < split_position
             THEN [acc EXCEPT !.left = GrowTriangle(acc.left, t),
                              !.count_left = acc.count_left + 1]
             ELSE [acc EXCEPT !.right = GrowTriangle(acc.right, t),
                              !.count_right = acc.count_right + 1]

\* The loop of Bvh::evaluate_split over tris[1..n]: the two boxes and counts.
RECURSIVE SplitSides(_, _, _, _)
SplitSides(split_axis, split_position, tris, n) ==
    IF n = 0
    THEN [left |-> EmptyBox, right |-> EmptyBox, count_left |-> 0, count_right |-> 0]
    ELSE LET acc == SplitSides(split_axis, split_position, tris, n - 1)
             t == tris[n]
         IN  IF IsLeft(t, split_axis, split_position)
             THEN [acc EXCEPT !.left = GrowTriangle(acc.left, t),
                              !.count_left = acc.count_left + 1]
             ELSE [acc EXCEPT !.right = GrowTriangle(acc.right, t),
                              !.count_right = acc.count_right + 1]

\* Variant of evaluate_split: the cost of the right side is left out.
evaluate_split_left_only(split_axis, split_position, tris) ==
    LET s == SplitSides(split_axis, split_position, tris, Len(tris))
    IN  bvh_cost(s.left[1], s.left[2], s.count_left)

\* Bvh::evaluate_split
evaluate_split(split_axis, split_position, tris) ==
    LET s == SplitSides(split_axis, split_position, tris, Len(tris))
    IN  DAdd(bvh_cost(s.left[1], s.left[2], s.count_left),
             bvh_cost(s.right[1], s.right[2], s.count_right))

\* Variant of SplitPos: the fractions are i / 6 in place of (i + 1) / 6.
SplitPos_from_min(bvh, axis, k) ==
    6 * bvh.min_bound[axis] + (k - 1) * (bvh.max_bound[axis] - bvh.min_bound[axis])

\* split_lambda.mul_add(delta, min_bound[axis]) for i + 1 = k, in sixths;
\* NaN on the infinite bounds of a node without triangles
SplitPos(bvh, axis, k) ==
    IF IsFinite(bvh.min_bound[axis]) /\ IsFinite(bvh.max_bound[axis])
    THEN 6 * bvh.min_bound[axis] + k * (bvh.max_bound[axis] - bvh.min_bound[axis])
    ELSE DAdd(DMul(k, FSub(bvh.max_bound[axis], bvh.min_bound[axis])),
              DMul(6, bvh.min_bound[axis]))

\* Variant of Candidates: every candidate is taken on axis 0.
Candidates_first_axis ==
    [c \in 1..(3 * SPLIT_TEST_COUNT) |->
        [axis |-> 1, k |-> ((c - 1) % SPLIT_TEST_COUNT) + 1]]

\* The candidates in evaluation order: axis 0, 1, 2 and i = 0..4 inside.
Candidates ==
    [c \in 1..(3 * SPLIT_TEST_COUNT) |->
        [axis |-> ((c - 1) \div SPLIT_TEST_COUNT) + 1,
         k |-> ((c - 1) % SPLIT_TEST_COUNT) + 1]]

\* What Bvh::choose_split holds before its loops, and returns for a slice
\* of MIN_TRIANGLES triangles or fewer: (0, 0.0, f64::INFINITY).  tested
\* counts the calls of evaluate_split made, sampled lists their arguments.
NoSplit == [axis |-> 1, pos |-> 0, cost |-> INFINITY, tested |-> 0, sampled |-> << >>]

\* Variant of BestSplit: a candidate of equal cost replaces the best one.
RECURSIVE BestSplit_latest(_, _, _)
BestSplit_latest(bvh, tris, c) ==
    IF c = 0
    THEN NoSplit
    ELSE LET best == BestSplit_latest(bvh, tris, c - 1)
             split_pos == SplitPos(bvh, Candidates[c].axis, Candidates[c].k)
             cost == evaluate_split(Candidates[c].axis, split_pos, tris)
             seen == Append(best.sampled, << Candidates[c].axis, split_pos >>)
         IN  IF FLess(cost, best.cost) \/ (cost # NaN /\ cost = best.cost)
             THEN [axis |-> Candidates[c].axis, pos |-> split_pos, cost |-> cost,
                   tested |-> best.tested + 1, sampled |-> seen]
             ELSE [best EXCEPT !.tested = @ + 1, !.sampled = seen]

\* The loops of Bvh::choose_split after candidates 1..c: the best so far.
RECURSIVE BestSplit(_, _, _)
BestSplit(bvh, tris, c) ==
    IF c = 0
    THEN NoSplit
    ELSE LET best == BestSplit(bvh, tris, c - 1)
             split_pos == SplitPos(bvh, Candidates[c].axis, Candidates[c].k)
             cost == evaluate_split(Candidates[c].axis, split_pos, tris)
             seen == Append(best.sampled, << Candidates[c].axis, split_pos >>)
         IN  IF FLess(cost, best.cost)
             THEN [axis |-> Candidates[c].axis, pos |-> split_pos, cost |-> cost,
                   tested |-> best.tested + 1, sampled |-> seen]
             ELSE [best EXCEPT !.tested = @ + 1, !.sampled = seen]

\* Variant of choose_split: no minimum size for a node to be split.
choose_split_unbounded(bvh, tris) == BestSplit(bvh, tris, 3 * SPLIT_TEST_COUNT)

\* Variant of TooFew: a slice of MIN_TRIANGLES triangles is still examined.
TooFew_below(tris) == Len(tris) < MIN_TRIANGLES

\* triangles.len() <= MIN_TRIANGLES
TooFew(tris) == Len(tris) <= MIN_TRIANGLES

\* Bvh::choose_split
choose_split(bvh, tris) ==
    IF TooFew(tris)
    THEN NoSplit
    ELSE BestSplit(bvh, tris, 3 * SPLIT_TEST_COUNT)

\* A fresh node of Bvh
Node(min_bound, max_bound, triangle_offset, triangle_count) ==
    [min_bound |-> min_bound, max_bound |-> max_bound,
     left_offset |-> 0, right_offset |-> 0,
     triangle_offset |-> triangle_offset, triangle_count |-> triangle_count]

\* Variant of Swap: the two triangles stay where they are.
Swap_none(tris, i, j) == tris

\* triangles.swap(i, j), on 1-based positions
Swap(tris, i, j) == [tris EXCEPT ![i] = tris[j], ![j] = tris[i]]

\* Variant of SliceBounds: the bounds of an empty slice are the origin.
RECURSIVE SliceBounds_or_origin(_, _)
SliceBounds_or_origin(tris, n) ==
    IF tris = << >> THEN << <<0, 0, 0>>, <<0, 0, 0>> >>
    ELSE IF n = 0 THEN EmptyBox
    ELSE GrowTriangle(SliceBounds_or_origin(tris, n - 1), tris[n])

\* The bounds Bvh::build computes for its slice, after n triangles
RECURSIVE SliceBounds(_, _)
SliceBounds(tris, n) ==
    IF n = 0 THEN EmptyBox ELSE GrowTriangle(SliceBounds(tris, n - 1), tris[n])

\* Variant of RootNode: the offset counted inside the slice of the mesh.
RootNode_local(box, triangle_offset, len) == Node(box[1], box[2], 0, len)

\* The root node pushed by Bvh::build
RootNode(box, triangle_offset, len) == Node(box[1], box[2], triangle_offset, len)

\* Variant of Push: the node is put in front of the array.
Push_front(nodes, node) == << node >> \o nodes

\* bvhs.push(node)
Push(nodes, node) == Append(nodes, node)

\* Variant of PatchLeft: the index of the node itself is stored.
PatchLeft_self(nodes, start_bvh_len) ==
    [nodes EXCEPT ![Len(nodes)].left_offset = start_bvh_len - 1]

\* bvh.left_offset = start_bvh_len, bvh being bvhs.last_mut()
PatchLeft(nodes, start_bvh_len) ==
    [nodes EXCEPT ![Len(nodes)].left_offset = start_bvh_len]

\* Variant of PatchRight: the index of the right child lands in left_offset.
PatchRight_left(nodes, start_bvh_len, child) ==
    [nodes EXCEPT ![start_bvh_len].left_offset = child]

\* bvhs[start_bvh_len as usize - 1].right_offset = child
PatchRight(nodes, start_bvh_len, child) ==
    [nodes EXCEPT ![start_bvh_len].right_offset = child]

\* Variant of ChildInit: the children start from the parent's own bounds.
ChildInit_unexchanged(bvh) == Node(bvh.min_bound, bvh.max_bound, bvh.triangle_offset, 0)

\* Both children of Bvh::split before the partition loop: the bounds start
\* from the parent's bounds exchanged, both offsets from the parent's.
ChildInit(bvh) == Node(bvh.max_bound, bvh.min_bound, bvh.triangle_offset, 0)

\* Variant of PartitionStep: only the left child counts its triangles.
PartitionStep_uncounted(acc, i, split_axis, split_position) ==
    LET left == IsLeft(acc.tris[i], split_axis, split_position)
        slot == acc.bvh_left.triangle_count + 1
        swapped == Swap(acc.tris, i, slot)
        triangle == swapped[slot]
        Grown(target, by) ==
            LET box == GrowTriangle(<<target.min_bound, target.max_bound>>, triangle)
            IN  [target EXCEPT !.triangle_count = @ + by,
                               !.min_bound = box[1], !.max_bound = box[2]]
    IN  IF left
        THEN [tris |-> swapped, bvh_left |-> Grown(acc.bvh_left, 1), bvh_right |-> acc.bvh_right]
        ELSE [tris |-> swapped, bvh_left |-> acc.bvh_left, bvh_right |-> Grown(acc.bvh_right, 0)]

\* The i-th iteration (1-based) of the partition loop of Bvh::split.
PartitionStep(acc, i, split_axis, split_position) ==
    LET left == IsLeft(acc.tris[i], split_axis, split_position)
        slot == acc.bvh_left.triangle_count + 1
        swapped == Swap(acc.tris, i, slot)
        triangle == swapped[slot]
        Grown(target) ==
            LET box == GrowTriangle(<<target.min_bound, target.max_bound>>, triangle)
            IN  [target EXCEPT !.triangle_count = @ + 1,
                               !.min_bound = box[1], !.max_bound = box[2]]
    IN  IF left
        THEN [tris |-> swapped, bvh_left |-> Grown(acc.bvh_left), bvh_right |-> acc.bvh_right]
        ELSE [tris |-> swapped, bvh_left |-> acc.bvh_left, bvh_right |-> Grown(acc.bvh_right)]

\* Variant of Partition: the slice is scanned from its end.
RECURSIVE Partition_reversed(_, _, _, _, _)
Partition_reversed(bvh, tris, split_axis, split_position, n) ==
    IF n = 0
    THEN [tris |-> tris, bvh_left |-> ChildInit(bvh), bvh_right |-> ChildInit(bvh)]
    ELSE PartitionStep(Partition_reversed(bvh, tris, split_axis, split_position, n - 1),
                       Len(tris) + 1 - n, split_axis, split_position)

\* The partition loop of Bvh::split after iterations 1..n.
RECURSIVE Partition(_, _, _, _, _)
Partition(bvh, tris, split_axis, split_position, n) ==
    IF n = 0
    THEN [tris |-> tris, bvh_left |-> ChildInit(bvh), bvh_right |-> ChildInit(bvh)]
    ELSE PartitionStep(Partition(bvh, tris, split_axis, split_position, n - 1),
                       n, split_axis, split_position)

\* n * x for an integer n > 0 and an f64 x
FTimes(n, x) == IF IsFinite(x) THEN n * x ELSE x

\* Variant of Accepts: any improvement on the parent's cost is taken.
Accepts_any_gain(split_cost, parent_cost) == FLess(split_cost, parent_cost)

\* split_cost < 0.9 * parent_cost
Accepts(split_cost, parent_cost) == FLess(FTimes(10, split_cost), FTimes(9, parent_cost))

\* Variant of U32Add: the right child keeps the offset it was created with.
U32Add_unpatched(a, b) == a

\* triangle_offset + bvh_left.triangle_count on u32, where the build does
\* not check the overflow
U32Add(a, b) == IF U32Fits(a + b) THEN a + b ELSE (a + b) - 2 ^ index_bits

\* ------------------------------------------------------------ Model::load
\* arr[i] of a flat array, i counted from 0
At(arr, i) == arr[i + 1]
InRange(arr, i) == i >= 0 /\ i < Len(arr)

\* Variant of VertexOf: position[0] added to every component.
VertexOf_first_component(mesh, v, position) ==
    << FAdd(At(mesh.positions, v * 3), position[1]),
       FAdd(At(mesh.positions, v * 3 + 1), position[1]),
       FAdd(At(mesh.positions, v * 3 + 2), position[1]) >>

\* [positions[v*3] + position[0], positions[v*3+1] + position[1], ...]
VertexOf(mesh, v, position) ==
    << FAdd(At(mesh.positions, v * 3), position[1]),
       FAdd(At(mesh.positions, v * 3 + 1), position[2]),
       FAdd(At(mesh.positions, v * 3 + 2), position[3]) >>

\* Variant of NormalOf: the two edges exchanged in the product.
NormalOf_reversed(mesh, a, b, c) ==
    LET P(v, d) == At(mesh.positions, v * 3 + d)
        ab == [d \in 1..3 |-> FSub(P(c, d - 1), P(a, d - 1))]
        ac == [d \in 1..3 |-> FSub(P(b, d - 1), P(a, d - 1))]
    IN  << FMulAdd(ab[2], ac[3], FNeg(FMul(ab[3], ac[2]))),
           FMulAdd(ab[3], ac[1], FNeg(FMul(ab[1], ac[3]))),
           FMulAdd(ab[1], ac[2], FNeg(FMul(ab[2], ac[1]))) >>

\* The normal of Model::load: ab x ac on the positions of the mesh.
NormalOf(mesh, a, b, c) ==
    LET P(v, d) == At(mesh.positions, v * 3 + d)
        ab == [d \in 1..3 |-> FSub(P(b, d - 1), P(a, d - 1))]
        ac == [d \in 1..3 |-> FSub(P(c, d - 1), P(a, d - 1))]
    IN  << FMulAdd(ab[2], ac[3], FNeg(FMul(ab[3], ac[2]))),
           FMulAdd(ab[3], ac[1], FNeg(FMul(ab[1], ac[3]))),
           FMulAdd(ab[1], ac[2], FNeg(FMul(ab[2], ac[1]))) >>

UvOf(mesh, v) == << At(mesh.texcoords, v * 2), At(mesh.texcoords, v * 2 + 1) >>

\* Every slice index the body of the loop reads for the triple at i exists.
TripleInBounds(mesh, i) ==
    /\ InRange(mesh.indices, i + 2)
    /\ \A j \in 0..2 :
          /\ InRange(mesh.positions, At(mesh.indices, i + j) * 3 + 2)
          /\ InRange(mesh.texcoords, At(mesh.indices, i + j) * 2 + 1)

\* Variant of TriangleAt: the second and third index of the triple exchanged.
TriangleAt_flipped(mesh, i, position) ==
    LET a == At(mesh.indices, i)
        b == At(mesh.indices, i + 2)
        c == At(mesh.indices, i + 1)
    IN  [vertices |-> << VertexOf(mesh, a, position), VertexOf(mesh, b, position),
                         VertexOf(mesh, c, position) >>,
         normal |-> NormalOf(mesh, a, b, c),
         uv |-> << UvOf(mesh, a), UvOf(mesh, b), UvOf(mesh, c) >>]

\* The Triangle built for the index triple at i
TriangleAt(mesh, i, position) ==
    LET a == At(mesh.indices, i)
        b == At(mesh.indices, i + 1)
        c == At(mesh.indices, i + 2)
    IN  [vertices |-> << VertexOf(mesh, a, position), VertexOf(mesh, b, position),
                         VertexOf(mesh, c, position) >>,
         normal |-> NormalOf(mesh, a, b, c),
         uv |-> << UvOf(mesh, a), UvOf(mesh, b), UvOf(mesh, c) >>]

\* Variant of ExtractMesh: a triple that cannot be read is left out.
RECURSIVE ExtractMesh_skipping(_, _, _, _)
ExtractMesh_skipping(mesh, i, position, acc) ==
    IF i >= Len(mesh.indices) THEN [tris |-> acc, ok |-> TRUE]
    ELSE IF ~TripleInBounds(mesh, i) THEN ExtractMesh_skipping(mesh, i + 3, position, acc)
    ELSE ExtractMesh_skipping(mesh, i + 3, position, Append(acc, TriangleAt(mesh, i, position)))

\* for i in (0..mesh.indices.len()).step_by(3), from i on: the triangles
\* pushed, and whether the loop got to its end without a panic.
RECURSIVE ExtractMesh(_, _, _, _)
ExtractMesh(mesh, i, position, acc) ==
    IF i >= Len(mesh.indices) THEN [tris |-> acc, ok |-> TRUE]
    ELSE IF ~TripleInBounds(mesh, i) THEN [tris |-> acc, ok |-> FALSE]
    ELSE ExtractMesh(mesh, i + 3, position, Append(acc, TriangleAt(mesh, i, position)))

\* for model in &models, from the m-th model of the file on
RECURSIVE ExtractFile(_, _, _, _)
ExtractFile(file, m, position, acc) ==
    IF m > Len(file) THEN [tris |-> acc, ok |-> TRUE]
    ELSE LET r == ExtractMesh(file[m], 0, position, acc)
         IN  IF r.ok THEN ExtractFile(file, m + 1, position, r.tris) ELSE r

\* Variant of NewModel: the root counted from the first node of its own mesh.
NewModel_relative(bvh_index) == [bvh_index |-> 0, material_id |-> 0]

\* The Model returned by Model::load
NewModel(bvh_index) == [bvh_index |-> bvh_index, material_id |-> 0]

\* The hardcoded materials of LoadedModels::load, in hundredths.
MaterialsData ==
    << [color |-> <<80, 60, 60>>, albedo |-> 100, smoothness |-> 98,
        emission_strength |-> 0] >>

\* ------------------------------------------------------------ inputs
\* The OBJ files of the model.  Every object of a file carries the same
\* vertex table.
TablePoints ==
    << <<0, 0, 0>>, <<1, 5, 0>>, <<0, 0, 5>>,
       <<1, 0, 0>>, <<1, 0, 5>>,
       <<0, 7, 0>>, <<1, 7, 0>>, <<0, 8, 0>>,
       <<0, 20, 0>>, <<0, 0, 20>>, <<0, 20, 20>>,
       <<1, 20, 0>>, <<1, 0, 20>>, <<1, 20, 20>> >>

VertexCount == Len(TablePoints)

\* mesh.positions and mesh.texcoords, flat
TablePositions == [i \in 1..(3 * VertexCount) |-> TablePoints[((i - 1) \div 3) + 1][((i - 1) % 3) + 1]]
TableTexcoords ==
    [i \in 1..(2 * VertexCount) |-> IF i % 2 = 1 THEN (i - 1) \div 2 ELSE 10 + ((i - 1) \div 2)]

\* The faces a file may list, as index triples: a slanted triangle that
\* spans the unit slab 0 <= x <= 1, an upright one in the plane x = 1 that
\* shares a vertex with it and lists its indices downwards, a triangle
\* collapsed to the top vertex of the first, and a flat one further along y.
FacePool == { <<0, 1, 2>>, <<4, 3, 1>>, <<2, 2, 2>>, <<6, 7, 5>> }

RECURSIVE Flatten(_)
Flatten(faces) == IF faces = << >> THEN << >> ELSE Head(faces) \o Flatten(Tail(faces))

\* A file is named by the faces it lists and by what is wrong with it.
Defects == { "oob", "no_uv", "ragged" }

Path(faces, defect) == [faces |-> faces, defect |-> defect]

\* The mesh of an object listing these faces.
MeshOf(faces, defect) ==
    LET indices == Flatten(faces)
    IN  [positions |-> TablePositions,
         texcoords |-> IF defect = "no_uv" THEN << >> ELSE TableTexcoords,
         indices |-> IF indices = << >> \/ defect \in {"none", "no_uv"} THEN indices
                     ELSE IF defect = "oob"
                     THEN [indices EXCEPT ![Len(indices)] = VertexCount]
                     ELSE Append(indices, 0)]

\* tobj::load_obj(src): one object for the first face of the file and one
\* for the others; a defect sits in the last object.
load_obj(src) ==
    IF Len(src.faces) <= 1 THEN << MeshOf(src.faces, src.defect) >>
    ELSE << MeshOf(<<Head(src.faces)>>, "none"), MeshOf(Tail(src.faces), src.defect) >>

FirstOf(sq) == IF sq = << >> THEN << >> ELSE << Head(sq) >>

Reverse(sq) == [i \in 1..Len(sq) |-> sq[Len(sq) + 1 - i]]

FaceSeqs == UNION { [1..n -> FacePool] : n \in 0..MaxTris }

Scene(paths, translations) == [model_paths |-> paths, positions |-> translations]

\* A translation so far along x that the f32 sum with a coordinate of the
\* vertex table is rounded: 2^24.
Far == 16777216

\* Well-formed scenes: no file, one file near or far, two files of which
\* one is derived from the other, or three with an empty one in the middle.
GoodScenes ==
    { Scene(<< >>, << >>) }
    \cup UNION {
          { Scene(<< Path(fs, "none") >>, << <<10, 0, 0>> >>),
            Scene(<< Path(fs, "none") >>, << <<Far, 0, 0>> >>),
            Scene(<< Path(fs, "none"), Path(Reverse(fs), "none") >>,
                  << <<1, 2, 3>>, <<10, 0, 0>> >>),
            Scene(<< Path(FirstOf(fs), "none"), Path(fs, "none") >>,
                  << <<10, 0, 0>>, <<0, 0, 0>> >>),
            Scene(<< Path(<< >>, "none"), Path(fs, "none") >>,
                  << <<0, 0, 0>>, <<1, 2, 3>> >>),
            Scene(<< Path(fs, "none"), Path(<< >>, "none"), Path(FirstOf(fs), "none") >>,
                  << <<0, 0, 0>>, <<10, 0, 0>>, <<1, 2, 3>> >>) }
          : fs \in FaceSeqs }

\* Ill-formed scenes: a defective file alone or after a sound one, and
\* translation lists of the wrong length.
BadScenes ==
    UNION {
      { Scene(<< Path(fs, d) >>, << <<10, 0, 0>> >>) : d \in Defects }
      \cup { Scene(<< Path(FirstOf(fs), "none"), Path(fs, d) >>,
                   << <<0, 0, 0>>, <<10, 0, 0>> >>) : d \in Defects }
      \cup { Scene(<< Path(fs, "none") >>, << >>),
             Scene(<< Path(fs, "none") >>, << <<0, 0, 0>>, <<10, 0, 0>> >>),
             Scene(<< Path(fs, "none"), Path(fs, "none") >>, << <<10, 0, 0>> >>) }
      : fs \in { f \in FaceSeqs : Len(f) \in 1..2 } }

\* Files of eight triangles in two groups of four whose bounding boxes are
\* disjoint.  In the first the groups are 2 apart along y and listed in
\* turn: the faces <<0, 1, 2>> and <<4, 3, 1>>, each with both windings,
\* and four windings of the flat triangle at y >= 7.  In the second they are
\* two squares of side 20, each cut in two triangles listed with both
\* windings, one in the plane x = 0 and one in the plane x = 1.
ApartAlongY ==
    << <<0, 1, 2>>, <<6, 7, 5>>, <<0, 2, 1>>, <<6, 5, 7>>,
       <<4, 3, 1>>, <<5, 6, 7>>, <<4, 1, 3>>, <<7, 6, 5>> >>

FacingSquares ==
    << <<0, 8, 9>>, <<0, 9, 8>>, <<10, 9, 8>>, <<10, 8, 9>>,
       <<3, 11, 12>>, <<3, 12, 11>>, <<13, 12, 11>>, <<13, 11, 12>> >>

\* A file of eight triangles, each collapsed to a corner of the box that
\* the vertex table spans from <<0, 0, 0>> to <<1, 20, 20>>, the corners at
\* y = 0 listed in turn with those at y = 20.
BoxCorners ==
    << <<0, 0, 0>>, <<8, 8, 8>>, <<3, 3, 3>>, <<11, 11, 11>>,
       <<9, 9, 9>>, <<10, 10, 10>>, <<12, 12, 12>>, <<13, 13, 13>> >>

ClusterScenes ==
    { Scene(<< Path(fs, "none") >>, << <<0, 0, 0>> >>)
      : fs \in {ApartAlongY, FacingSquares, BoxCorners} }
    \cup { Scene(<< Path(ApartAlongY, "none"), Path(FacingSquares, "none") >>,
                 << <<0, 0, 0>>, <<0, 0, 0>> >>) }
    \cup { Scene(<< Path(FirstOf(fs), "none"), Path(fs, "none") >>,
                 << <<0, 0, 0>>, <<1, 2, 3>> >>)
           : fs \in {ApartAlongY, FacingSquares, BoxCorners} }

\* n times the same face
Repeat(face, n) == [i \in 1..n |-> face]

\* Scenes for the narrow index: a first file of triangles collapsed to one
\* point, as many as the index can count or up to two fewer, then any file.
NarrowScenes ==
    { Scene(<< Path(Repeat(<<2, 2, 2>>, n), "none"), Path(fs, "none") >>,
            << <<0, 0, 0>>, <<0, 0, 0>> >>)
      : n \in (2 ^ NarrowBits - 2)..(2 ^ NarrowBits), fs \in FaceSeqs }

\* ------------------------------------------------------------ state
VARIABLES
    model_paths,  \* the files to load
    positions,    \* the translations given to LoadedModels::load
    triangles,    \* Vec<Triangle>, the global triangle array
    bvhs,         \* Vec<Bvh>, the global node array
    models,       \* Vec<Model>
    pc,           \* where LoadedModels::load stands
    next_model,   \* pairs of the zip already consumed
    load,         \* the locals of the running Model::load
    stack,        \* the frames of the running Bvh::split calls, innermost last
    hist,         \* observation: per Model::load, the array lengths at its start and
                  \* end, the calls of evaluate_split made, and the node and the
                  \* result of the last call of choose_split
    moved         \* observation: nodes whose split changed the order of their slice

vars == << index_bits, model_paths, positions, triangles, bvhs, models, pc, next_model, load,
           stack, hist, moved >>

NoLoad == [triangle_offset |-> 0, bvh_index |-> 0]

\* The entry of LoadedModels::load with one of these scenes
InitWith(bits, scenes) ==
    /\ index_bits = bits
    /\ \E sc \in scenes :
          /\ model_paths = sc.model_paths
          /\ positions = sc.positions
    /\ triangles = << >>
    /\ bvhs = << >>
    /\ models = << >>
    /\ pc = "assert"
    /\ next_model = 0
    /\ load = NoLoad
    /\ stack = << >>
    /\ hist = << >>
    /\ moved = { }

Init == InitWith(IndexBits, GoodScenes \cup BadScenes \cup ClusterScenes)

\* The same load with indices of NarrowBits bits
InitNarrow == InitWith(NarrowBits, NarrowScenes)

\* model_paths.iter().zip(positions) yields this many pairs
ZipLen == IF Len(model_paths) < Len(positions) THEN Len(model_paths) ELSE Len(positions)

\* Variant of ParentSlot: the node that bvhs.last_mut() gives after the left
\* subtree has been appended.
ParentSlot_last(fr) == Len(bvhs)

\* start_bvh_len as usize - 1, as a position of bvhs counted from 1
ParentSlot(fr) == fr.start_bvh_len

\* A frame of Bvh::split about to run on triangles[lo .. lo + len)
Frame(lo, len) ==
    [phase |-> "enter", lo |-> lo, len |-> len, start_bvh_len |-> 0,
     triangle_offset |-> 0, left_count |-> 0, bvh_right |-> Node(<<0, 0, 0>>, <<0, 0, 0>>, 0, 0)]

\* The stack once the innermost call has returned: a caller that was in its
\* second recursive call returns as well, one that was in its first goes on.
RECURSIVE Returned(_)
Returned(st) ==
    LET rest == SubSeq(st, 1, Len(st) - 1)
    IN  IF rest # << >> /\ rest[Len(rest)].phase = "right" THEN Returned(rest) ELSE rest

\* Variant of WithSlice: the positions counted in the whole array.
WithSlice_from_start(all, lo, tris) ==
    [i \in 1..Len(all) |-> IF i <= Len(tris) THEN tris[i] ELSE all[i]]

\* triangles[lo .. lo + len) replaced by tris
WithSlice(all, lo, tris) ==
    [i \in 1..Len(all) |-> IF i > lo /\ i <= lo + Len(tris) THEN tris[i - lo] ELSE all[i]]

\* Variant of SameLength: only a missing translation is refused.
SameLength_enough == Len(model_paths) <= Len(positions)

\* model_paths.len() == positions.len()
SameLength == Len(model_paths) = Len(positions)

\* assert_eq!(model_paths.len(), positions.len())
LoadAssert ==
    /\ pc = "assert"
    /\ pc' = IF SameLength THEN "loop" ELSE "panic"
    /\ UNCHANGED << index_bits, model_paths, positions, triangles, bvhs, models, next_model, load,
                    stack, hist, moved >>

\* Model::load up to the call of Bvh::build: the extraction of the file.
ModelLoadExtract ==
    /\ pc = "loop"
    /\ next_model < ZipLen
    /\ load' = [triangle_offset |-> Len(triangles), bvh_index |-> Len(bvhs)]
    /\ IF ~U32Fits(Len(bvhs))
       THEN /\ pc' = "panic"
            /\ UNCHANGED triangles
       ELSE \E r \in { ExtractFile(load_obj(model_paths[next_model + 1]), 1,
                                   positions[next_model + 1], triangles) } :
               /\ triangles' = r.tris
               /\ pc' = IF r.ok /\ U32Fits(Len(triangles)) THEN "build" ELSE "panic"
    /\ hist' = Append(hist, [tri_start |-> Len(triangles), tri_end |-> 0 - 1,
                             bvh_start |-> Len(bvhs), bvh_end |-> 0 - 1,
                             tested |-> 0, node |-> 0 - 1, split |-> NoSplit])
    /\ UNCHANGED << index_bits, model_paths, positions, bvhs, models, next_model, stack, moved >>

\* Bvh::build: the bounds of the slice, the root node, the call of split.
BvhBuild ==
    /\ pc = "build"
    /\ LET lo == load.triangle_offset
           len == Len(triangles) - lo
           box == SliceBounds(SubSeq(triangles, lo + 1, lo + len), len)
       IN  IF U32Fits(len)
           THEN /\ bvhs' = Push(bvhs, RootNode(box, load.triangle_offset, len))
                /\ stack' = << Frame(lo, len) >>
                /\ pc' = "split"
           ELSE /\ pc' = "panic"
                /\ UNCHANGED << bvhs, stack >>
    /\ UNCHANGED << index_bits, model_paths, positions, triangles, models, next_model, load, hist, moved >>

\* Bvh::split from its entry to its first recursive call, or to its return
\* when the split is not taken.
BvhSplitEnter ==
    /\ pc = "split"
    /\ stack # << >>
    /\ stack[Len(stack)].phase = "enter"
    /\ \E fr \in { stack[Len(stack)] }, bvh \in { bvhs[Len(bvhs)] } :
       \E tris \in { SubSeq(triangles, fr.lo + 1, fr.lo + fr.len) } :
       \E split \in { choose_split(bvh, tris) } :
          IF ~U32Fits(Len(bvhs))
          THEN /\ pc' = "panic"
               /\ UNCHANGED << triangles, bvhs, stack, moved, hist >>
          ELSE /\ hist' = [hist EXCEPT ![Len(hist)].tested = @ + split.tested,
                                        ![Len(hist)].node = Len(bvhs) - 1,
                                        ![Len(hist)].split = split]
               /\ IF Accepts(split.cost,
                             bvh_cost(bvh.min_bound, bvh.max_bound, bvh.triangle_count))
                  THEN \E p \in { Partition(bvh, tris, split.axis, split.pos, Len(tris)) } :
                       /\ triangles' = WithSlice(triangles, fr.lo, p.tris)
                       /\ bvhs' = Push(PatchLeft(bvhs, Len(bvhs)), p.bvh_left)
                       /\ stack' = Append(
                             [stack EXCEPT ![Len(stack)] =
                                 [fr EXCEPT !.phase = "left",
                                            !.start_bvh_len = Len(bvhs),
                                            !.triangle_offset = bvh.triangle_offset,
                                            !.left_count = p.bvh_left.triangle_count,
                                            !.bvh_right = p.bvh_right]],
                             Frame(fr.lo, p.bvh_left.triangle_count))
                       /\ moved' = IF p.tris = tris THEN moved ELSE moved \cup { Len(bvhs) - 1 }
                       /\ pc' = "split"
                  ELSE /\ stack' = Returned(stack)
                       /\ pc' = IF Returned(stack) = << >> THEN "built" ELSE "split"
                       /\ UNCHANGED << triangles, bvhs, moved >>
    /\ UNCHANGED << index_bits, model_paths, positions, models, next_model, load >>

\* Bvh::split between its two recursive calls: the right child.
BvhSplitRight ==
    /\ pc = "split"
    /\ stack # << >>
    /\ stack[Len(stack)].phase = "left"
    /\ LET fr == stack[Len(stack)]
           bvh_right == [fr.bvh_right EXCEPT
                            !.triangle_offset = U32Add(fr.triangle_offset, fr.left_count)]
       IN  IF ~U32Fits(Len(bvhs))
           THEN /\ pc' = "panic"
                /\ UNCHANGED << bvhs, stack >>
           ELSE \/ /\ bvhs' = Push(PatchRight(bvhs, ParentSlot(fr), Len(bvhs)), bvh_right)
                   /\ stack' = Append([stack EXCEPT ![Len(stack)].phase = "right"],
                                      Frame(fr.lo + fr.left_count, fr.len - fr.left_count))
                   /\ pc' = "split"
                \* a build with overflow checks panics in the addition
                \/ /\ ~U32Fits(fr.triangle_offset + fr.left_count)
                   /\ bvhs' = PatchRight(bvhs, ParentSlot(fr), Len(bvhs))
                   /\ pc' = "panic"
                   /\ UNCHANGED stack
    /\ UNCHANGED << index_bits, model_paths, positions, triangles, models, next_model, load, hist, moved >>

\* Model::load after Bvh::build, and models.push(model) of the caller.
ModelLoadFinish ==
    /\ pc = "built"
    /\ IF U32Fits(Len(bvhs))
       THEN /\ models' = Append(models, NewModel(load.bvh_index))
            /\ hist' = [hist EXCEPT ![Len(hist)].tri_end = Len(triangles),
                                    ![Len(hist)].bvh_end = Len(bvhs)]
            /\ next_model' = next_model + 1
            /\ pc' = "loop"
       ELSE /\ pc' = "panic"
            /\ UNCHANGED << models, hist, next_model >>
    /\ UNCHANGED << index_bits, model_paths, positions, triangles, bvhs, load, stack, moved >>

\* The loop of LoadedModels::load is over: the arrays go to the buffers.
LoadFinish ==
    /\ pc = "loop"
    /\ next_model = ZipLen
    /\ pc' = "done"
    /\ UNCHANGED << index_bits, model_paths, positions, triangles, bvhs, models, next_model, load,
                    stack, hist, moved >>

Next ==
    \/ LoadAssert
    \/ ModelLoadExtract
    \/ BvhBuild
    \/ BvhSplitEnter
    \/ BvhSplitRight
    \/ ModelLoadFinish
    \/ LoadFinish

Spec == Init /\ [][Next]_vars

SpecNarrow == InitNarrow /\ [][Next]_vars

\* ------------------------------------------------------------ properties
\* No Bvh::split is running: every tree in bvhs is complete.
Quiet == pc # "split"

NodeIds == 0..(Len(bvhs) - 1)

\* The node at index i of bvhs, i counted from 0 as the stored offsets are.
NodeAt(i) == bvhs[i + 1]

HasChildren(i) == NodeAt(i).left_offset # 0 \/ NodeAt(i).right_offset # 0

Inner == { i \in NodeIds : HasChildren(i) }

\* The stored offset c names a node of the array.
IsNode(c) == c \in NodeIds

MinOf(S) == CHOOSE x \in S : \A y \in S : x <= y
MaxOf(S) == CHOOSE x \in S : \A y \in S : x >= y

\* The coordinates on axis a of the vertices of triangles[lo .. lo + n), lo from 0
CoordsIn(lo, n, a) ==
    { triangles[j].vertices[v][a] : j \in (lo + 1)..(lo + n), v \in 1..3 }

NodeCost(i) == bvh_cost(NodeAt(i).min_bound, NodeAt(i).max_bound, NodeAt(i).triangle_count)

\* Sum of triangle_count over the leaves below node i; fuel bounds the descent.
RECURSIVE LeafSum(_, _)
LeafSum(i, fuel) ==
    IF ~HasChildren(i) THEN NodeAt(i).triangle_count
    ELSE IF fuel = 0 \/ ~IsNode(NodeAt(i).left_offset) \/ ~IsNode(NodeAt(i).right_offset)
    THEN 0 - 1
    ELSE LeafSum(NodeAt(i).left_offset, fuel - 1) + LeafSum(NodeAt(i).right_offset, fuel - 1)

\* Faces listed by the k-th file
FaceCount(k) == Len(model_paths[k].faces)

\* C1: once a build is over, the two children of a node cover its triangle
\* range exactly: the left one starts where the node starts, the right one
\* where the left one ends, and their counts add up to the node's.
C1_RangePartition ==
    Quiet =>
        \A i \in Inner :
            LET n == NodeAt(i)
            IN  /\ IsNode(n.left_offset) /\ IsNode(n.right_offset)
                /\ NodeAt(n.left_offset).triangle_offset = n.triangle_offset
                /\ NodeAt(n.right_offset).triangle_offset =
                       n.triangle_offset + NodeAt(n.left_offset).triangle_count
                /\ NodeAt(n.left_offset).triangle_count
                       + NodeAt(n.right_offset).triangle_count = n.triangle_count

\* A finished scene whose second file starts at a triangle offset above 0 and
\* holds a node with children one of which has children too.
C1_Witness ==
    /\ pc = "done"
    /\ \E i \in Inner :
          /\ NodeAt(i).triangle_offset > 0
          /\ NodeAt(i).left_offset \in Inner
          /\ NodeAt(NodeAt(i).right_offset).triangle_offset > NodeAt(i).triangle_offset

\* C2: once a build is over, the bounds of every node that holds triangles
\* are the exact component-wise minimum and maximum of the vertices found in
\* its range of the triangle array as it stands.
C2_BoundTightness ==
    Quiet =>
        \A i \in NodeIds :
            LET n == NodeAt(i)
            IN  n.triangle_count > 0 =>
                    /\ n.triangle_offset + n.triangle_count <= Len(triangles)
                    /\ \A a \in Axes :
                          /\ n.min_bound[a] = MinOf(CoordsIn(n.triangle_offset, n.triangle_count, a))
                          /\ n.max_bound[a] = MaxOf(CoordsIn(n.triangle_offset, n.triangle_count, a))

\* A finished scene with a node whose child split as well, that split having
\* changed the order of the triangles inside the node's range.
C2_Witness ==
    /\ pc = "done"
    /\ \E i \in Inner :
          \E c \in { NodeAt(i).left_offset, NodeAt(i).right_offset } :
              /\ c \in Inner
              /\ c \in moved
              /\ NodeAt(c).triangle_count < NodeAt(i).triangle_count

\* C3: the root of a mesh of N triangles built at triangle offset 0 ends at
\* N, and below every node the triangle counts of the leaves add up to the
\* node's own count.
C3_LeafCounts ==
    Quiet =>
        /\ \A k \in 1..Len(models) :
              LET root == NodeAt(models[k].bvh_index)
              IN  hist[k].tri_start = 0 =>
                      root.triangle_offset + root.triangle_count = FaceCount(k)
        /\ \A i \in NodeIds : LeafSum(i, Len(bvhs)) = NodeAt(i).triangle_count

\* A finished mesh at offset 0 of MaxTris triangles in three or more leaves.
C3_Witness ==
    /\ pc = "done"
    /\ Len(models) >= 1
    /\ FaceCount(1) = MaxTris
    /\ Cardinality({ i \in NodeIds : ~HasChildren(i) /\ i < hist[1].bvh_end }) >= 3

\* C4: the costs of the two children of a node add up to strictly less than
\* nine tenths of the node's own cost.
C4_CostDrop ==
    Quiet =>
        \A i \in Inner :
            LET n == NodeAt(i)
            IN  /\ IsNode(n.left_offset) /\ IsNode(n.right_offset)
                /\ IsFinite(NodeCost(i))
                /\ IsFinite(NodeCost(n.left_offset))
                /\ IsFinite(NodeCost(n.right_offset))
                /\ 10 * (NodeCost(n.left_offset) + NodeCost(n.right_offset)) < 9 * NodeCost(i)

\* A finished scene with a node that has children, and with a leaf of more
\* than two triangles whose best candidate lowers the cost, by less than a
\* tenth.
C4_Witness ==
    /\ pc = "done"
    /\ Inner # { }
    /\ \E i \in NodeIds :
          /\ ~HasChildren(i)
          /\ NodeAt(i).triangle_count > MIN_TRIANGLES
          /\ LET tris == SubSeq(triangles, NodeAt(i).triangle_offset + 1,
                                NodeAt(i).triangle_offset + NodeAt(i).triangle_count)
                 best == choose_split(NodeAt(i), tris).cost
             IN  /\ IsFinite(best)
                 /\ best < NodeCost(i)
                 /\ 10 * best >= 9 * NodeCost(i)

\* C5: a node of at most two triangles has no children, and no leaf holds
\* more triangles than its mesh.
C5_LeafMinimality ==
    Quiet =>
        /\ \A i \in NodeIds :
              NodeAt(i).triangle_count <= 2 =>
                  NodeAt(i).left_offset = 0 /\ NodeAt(i).right_offset = 0
        /\ \A k \in 1..Len(models) :
              \A i \in hist[k].bvh_start..(hist[k].bvh_end - 1) :
                  ~HasChildren(i) => NodeAt(i).triangle_count <= FaceCount(k)

\* A finished scene holding a leaf of exactly two triangles that are far
\* enough apart for a split of them to pay, under a node that was split.
C5_Witness ==
    /\ pc = "done"
    /\ \E i \in NodeIds :
          /\ ~HasChildren(i)
          /\ NodeAt(i).triangle_count = 2
          /\ i # 0
          /\ \E j \in Inner : NodeAt(j).left_offset = i \/ NodeAt(j).right_offset = i
          /\ LET tris == SubSeq(triangles, NodeAt(i).triangle_offset + 1,
                                NodeAt(i).triangle_offset + 2)
             IN  Accepts(BestSplit(NodeAt(i), tris, 3 * SPLIT_TEST_COUNT).cost, NodeCost(i))

\* Triangles of the files before the k-th
RECURSIVE FacesBefore(_)
FacesBefore(k) == IF k <= 1 THEN 0 ELSE FacesBefore(k - 1) + FaceCount(k - 1)

\* The corners the f-th face of the k-th file names in the vertex table, each
\* moved by the k-th translation with the f32 sum.
MovedCorners(k, f) ==
    [v \in 1..3 |->
        [a \in Axes |->
            RoundF32(TablePoints[model_paths[k].faces[f][v] + 1][a] + positions[k][a])]]

\* The nodes found from node i by following stored child offsets.
RECURSIVE ReachFrom(_, _)
ReachFrom(S, fuel) ==
    LET more == S \cup { c \in NodeIds :
                           \E i \in S \cap NodeIds :
                               c # 0 /\ (NodeAt(i).left_offset = c \/ NodeAt(i).right_offset = c) }
    IN  IF fuel = 0 \/ more = S THEN S ELSE ReachFrom(more, fuel - 1)

Reach(i) == ReachFrom({i}, Len(bvhs))

\* The places of triangles[] covered by node i
RangeOf(i) ==
    (NodeAt(i).triangle_offset + 1)..(NodeAt(i).triangle_offset + NodeAt(i).triangle_count)

\* C6: after a load that did not fail there is one Model per file, in the
\* order of the files; the first root is node 0, each next root follows the
\* nodes appended for the file before it; the root of the k-th file starts at
\* the number of triangles of the files before it and counts the triangles
\* of its file, its range holding exactly the triangles of that file.
C6_ModelsInOrder ==
    pc = "done" =>
        /\ Len(models) = Len(model_paths)
        /\ Len(models) >= 1 => models[1].bvh_index = 0
        /\ \A k \in 1..(Len(models) - 1) :
              models[k + 1].bvh_index =
                  models[k].bvh_index + (hist[k].bvh_end - hist[k].bvh_start)
        /\ \A k \in 1..Len(models) :
              /\ IsNode(models[k].bvh_index)
              /\ NodeAt(models[k].bvh_index).triangle_offset = FacesBefore(k)
              /\ NodeAt(models[k].bvh_index).triangle_count = FaceCount(k)
              /\ FacesBefore(k) + FaceCount(k) <= Len(triangles)
              /\ \A f \in 1..FaceCount(k) :
                    Cardinality({ j \in RangeOf(models[k].bvh_index) :
                                    triangles[j].vertices = MovedCorners(k, f) })
                    = Cardinality({ g \in 1..FaceCount(k) :
                                      MovedCorners(k, g) = MovedCorners(k, f) })

\* A finished scene of two files, the first with a tree of three nodes or
\* more, the second with a root that has children.
C6_Witness ==
    /\ pc = "done"
    /\ Len(models) = 2
    /\ models[2].bvh_index >= 3
    /\ HasChildren(models[2].bvh_index)
    /\ NodeAt(models[2].bvh_index).triangle_offset >= 2

\* C7: after a load that did not fail, every index stored in models and in
\* the nodes is valid in the global arrays: the tree of a file lies within the
\* nodes appended for it, its nodes cover only triangles of its file, no two
\* files share a node or a triangle place, and every material_id names one
\* of the materials.
C7_GlobalIndices ==
    pc = "done" =>
        /\ \A k \in 1..Len(models) :
              /\ IsNode(models[k].bvh_index)
              /\ models[k].material_id >= 0
              /\ models[k].material_id < Len(MaterialsData)
              /\ \A i \in Reach(models[k].bvh_index) :
                    /\ i >= hist[k].bvh_start /\ i < hist[k].bvh_end
                    /\ NodeAt(i).triangle_offset >= FacesBefore(k)
                    /\ NodeAt(i).triangle_offset + NodeAt(i).triangle_count
                           <= FacesBefore(k) + FaceCount(k)
                    /\ FacesBefore(k) + FaceCount(k) <= Len(triangles)
        /\ \A k, l \in 1..Len(models) :
              k # l =>
                  /\ Reach(models[k].bvh_index) \cap Reach(models[l].bvh_index) = { }
                  /\ \A i \in Reach(models[k].bvh_index), j \in Reach(models[l].bvh_index) :
                        RangeOf(i) \cap RangeOf(j) = { }

\* A finished scene of two files with triangles, each with a root that has
\* children.
C7_Witness ==
    /\ pc = "done"
    /\ Len(models) = 2
    /\ HasChildren(models[1].bvh_index)
    /\ HasChildren(models[2].bvh_index)
    /\ Cardinality(Reach(models[2].bvh_index)) >= 3

\* The stored child offsets, of any node of the array, that name node j
ParentLinks(j) ==
    { l \in NodeIds \X {"left_offset", "right_offset"} :
        IF l[2] = "left_offset" THEN NodeAt(l[1]).left_offset = j
        ELSE NodeAt(l[1]).right_offset = j }

\* The builds that have returned
Built == { k \in 1..Len(hist) : hist[k].bvh_end >= 0 }

\* C8: a build appends at least one node; the first appended is the root,
\* with the offset given to the build and the length of the slice; every
\* other node it appended is named by exactly one stored child offset and
\* is found from the root.
C8_BuildAppends ==
    \A k \in Built :
        /\ hist[k].bvh_end > hist[k].bvh_start
        /\ hist[k].bvh_end <= Len(bvhs)
        /\ NodeAt(hist[k].bvh_start).triangle_offset = hist[k].tri_start
        /\ NodeAt(hist[k].bvh_start).triangle_count = hist[k].tri_end - hist[k].tri_start
        /\ \A j \in (hist[k].bvh_start + 1)..(hist[k].bvh_end - 1) :
              /\ Cardinality(ParentLinks(j)) = 1
              /\ \A l \in ParentLinks(j) :
                    l[1] >= hist[k].bvh_start /\ l[1] < hist[k].bvh_end
              /\ j \in Reach(hist[k].bvh_start)

\* Two builds have returned: one that appended the root alone for an empty
\* slice, one that appended five nodes or more at an offset above 0.
C8_Witness ==
    /\ \E k \in Built : hist[k].bvh_end = hist[k].bvh_start + 1 /\ hist[k].tri_end = hist[k].tri_start
    /\ \E k \in Built : hist[k].bvh_end >= hist[k].bvh_start + 5 /\ hist[k].bvh_start > 0

\* C9: in the final node array a node has a left child exactly when it has
\* a right child, and a child offset other than 0 is greater than the index
\* of the node that stores it.
C9_ChildOffsets ==
    Quiet =>
        \A i \in NodeIds :
            /\ NodeAt(i).left_offset = 0 <=> NodeAt(i).right_offset = 0
            /\ NodeAt(i).left_offset # 0 => NodeAt(i).left_offset > i
            /\ NodeAt(i).right_offset # 0 => NodeAt(i).right_offset > i

\* A finished scene where a node other than node 0 has a right child that is
\* not the node after its left child, and where node 0 is a leaf.
C9_Witness ==
    /\ pc = "done"
    /\ Len(bvhs) > 0
    /\ ~HasChildren(0)
    /\ \E i \in Inner :
          /\ i > 0
          /\ NodeAt(i).left_offset = i + 1
          /\ NodeAt(i).right_offset > i + 2

\* The file being loaded
Loading == next_model + 1

\* C10: the vertices stored for a file are the vertices its faces name, each
\* moved by the translation given for that file, and by no other: right
\* after the extraction of a file, face by face; after the load, every
\* triangle in the range of a file is a moved face of that file.
C10_Translation ==
    /\ pc = "build" =>
          /\ Len(triangles) = load.triangle_offset + FaceCount(Loading)
          /\ \A f \in 1..FaceCount(Loading) :
                triangles[load.triangle_offset + f].vertices = MovedCorners(Loading, f)
    /\ pc = "done" =>
          \A k \in 1..Len(model_paths) :
              \A j \in (FacesBefore(k) + 1)..(FacesBefore(k) + FaceCount(k)) :
                  \E f \in 1..FaceCount(k) : triangles[j].vertices = MovedCorners(k, f)

\* The second of two files has just been extracted: its translation is
\* <<10, 0, 0>>, that of the first is another, and its first face names the
\* vertex <<0, 0, 0>>, stored as <<10, 0, 0>>.
C10_Witness ==
    /\ pc = "build"
    /\ Loading = 2
    /\ positions[2] = <<10, 0, 0>>
    /\ positions[1] # positions[2]
    /\ FaceCount(1) > 0 /\ FaceCount(2) > 0
    /\ TablePoints[model_paths[2].faces[1][1] + 1] = <<0, 0, 0>>
    /\ triangles[load.triangle_offset + 1].vertices[1] = <<10, 0, 0>>

\* The UV pair the vertex table holds for vertex v, v counted from 0
RawUv(v) == << TableTexcoords[2 * v + 1], TableTexcoords[2 * v + 2] >>

\* C11: right after the extraction of a file the triangle array has grown by
\* one triangle per index triple of the file, in the order of the index
\* list; the f-th holds the vertices of the triple in the order (a, b, c)
\* and, for each, the UV pair of the vertex table as it stands there.
C11_Extraction ==
    pc = "build" =>
        LET faces == model_paths[Loading].faces
        IN  /\ Len(triangles) - load.triangle_offset = Len(Flatten(faces)) \div 3
            /\ \A f \in 1..Len(faces) :
                  LET t == triangles[load.triangle_offset + f]
                  IN  \A j \in 1..3 :
                          /\ t.vertices[j] = MovedCorners(Loading, f)[j]
                          /\ t.uv[j] = RawUv(faces[f][j])

\* The second file of a scene, with a translation other than 0, has just
\* been extracted: it lists two faces or more, the second being <<4, 3, 1>>,
\* whose UV pairs are stored in this order.
C11_Witness ==
    /\ pc = "build"
    /\ Loading = 2
    /\ positions[2] = <<10, 0, 0>>
    /\ FaceCount(2) >= 2
    /\ load.triangle_offset > 0
    /\ model_paths[2].faces[2] = <<4, 3, 1>>
    /\ triangles[load.triangle_offset + 2].uv = << <<4, 14>>, <<3, 13>>, <<1, 11>> >>

\* (pos_b - pos_a) x (pos_c - pos_a) on f32, for three points
CrossOf(pos_a, pos_b, pos_c) ==
    LET e1 == [d \in Axes |-> FSub(pos_b[d], pos_a[d])]
        e2 == [d \in Axes |-> FSub(pos_c[d], pos_a[d])]
    IN  << FMulAdd(e1[2], e2[3], FNeg(FMul(e1[3], e2[2]))),
           FMulAdd(e1[3], e2[1], FNeg(FMul(e1[1], e2[3]))),
           FMulAdd(e1[1], e2[2], FNeg(FMul(e1[2], e2[1]))) >>

\* The corners the f-th face of the k-th file names, as the vertex table
\* holds them.
RawCorners(k, f) == [v \in 1..3 |-> TablePoints[model_paths[k].faces[f][v] + 1]]

\* The translation of the k-th file was added to the corners of its f-th
\* face without rounding.
ExactlyMoved(k, f) ==
    \A v \in 1..3, a \in Axes : MovedCorners(k, f)[v][a] = RawCorners(k, f)[v][a] + positions[k][a]

\* C12 as stated: the normal of every triangle is the product of the edges
\* taken on the vertices stored in that triangle.
C12_NormalOnStored ==
    \A j \in 1..Len(triangles) :
        triangles[j].normal =
            CrossOf(triangles[j].vertices[1], triangles[j].vertices[2], triangles[j].vertices[3])

\* C12: the normal of every extracted triangle is the product of the edges
\* b - a and c - a taken on the positions of the mesh before the translation;
\* it is therefore the same for every translation, it is not scaled to
\* length 1, and it is the product of the edges of the stored vertices
\* whenever the translation was added to them without rounding.
C12_NormalOnRaw ==
    pc = "build" =>
        \A f \in 1..FaceCount(Loading) :
            LET t == triangles[load.triangle_offset + f]
                raw == RawCorners(Loading, f)
            IN  /\ t.normal = CrossOf(raw[1], raw[2], raw[3])
                /\ ExactlyMoved(Loading, f) =>
                      t.normal = CrossOf(t.vertices[1], t.vertices[2], t.vertices[3])

\* A file moved by 2^24 along x has just been extracted: the face <<0, 1, 2>>
\* has the normal <<25, -5, 0>> of its raw corners, of length other than 1,
\* while the edges of its stored vertices, whose x were rounded, give
\* another product.
C12_Witness ==
    /\ pc = "build"
    /\ positions[Loading] = <<Far, 0, 0>>
    /\ \E f \in 1..FaceCount(Loading) :
          LET t == triangles[load.triangle_offset + f]
          IN  /\ model_paths[Loading].faces[f] = <<0, 1, 2>>
              /\ ~ExactlyMoved(Loading, f)
              /\ t.normal = <<25, 0 - 5, 0>>
              /\ CrossOf(t.vertices[1], t.vertices[2], t.vertices[3]) = <<25, 0, 0>>

\* C13: when the list of files and the list of translations differ in
\* length, the load stops at its assertion: no file is extracted, and no
\* triangle, node or Model is ever produced, not even for the pairs a zip of
\* the two lists would yield.
C13_LengthMismatch ==
    Len(model_paths) # Len(positions) =>
        /\ pc \in {"assert", "panic"}
        /\ triangles = << >>
        /\ bvhs = << >>
        /\ models = << >>
        /\ hist = << >>
        /\ next_model = 0

\* The load has stopped with nothing produced, in a scene of one file with
\* triangles and two translations, where a zip would yield a pair.
C13_Witness ==
    /\ pc = "panic"
    /\ Len(model_paths) = 1
    /\ Len(positions) = 2
    /\ ZipLen = 1
    /\ FaceCount(1) > 0
    /\ triangles = << >>

\* The k-th file holds a triple that cannot be read: an index beyond the
\* vertex table, no UV array, or an index list that ends inside a triple.
Defective(k) == model_paths[k].defect # "none" /\ model_paths[k].faces # << >>

\* C14: a file with a triple that names a vertex beyond the position array
\* or a UV pair beyond the UV array, or whose index list ends inside a
\* triple, stops the load: no Model is returned for it, no node is appended
\* for it, and the load never completes.
C14_BadIndexAborts ==
    \A k \in 1..Len(model_paths) :
        Defective(k) =>
            /\ pc # "done"
            /\ Len(models) < k
            /\ Len(hist) >= k =>
                  /\ pc = "panic"
                  /\ stack = << >>
                  /\ Len(bvhs) = hist[k].bvh_start

\* The load has stopped in the second file, whose last index is beyond the
\* vertex table, after a triangle of that file was appended; the first file
\* has its Model.
C14_Witness ==
    /\ pc = "panic"
    /\ Len(model_paths) = 2
    /\ Defective(2)
    /\ model_paths[2].defect = "oob"
    /\ Len(models) = 1
    /\ Len(hist) = 2
    /\ Len(triangles) > hist[2].tri_start

\* C15 as stated: a load whose triangles or nodes outgrow the index never
\* completes, and the right child of every node starts at the sum of its
\* parent's offset and its sibling's count, not at that sum wrapped.
C15_NoWrap ==
    /\ pc = "done" => U32Fits(Len(triangles)) /\ U32Fits(Len(bvhs))
    /\ \A i \in NodeIds :
          (NodeAt(i).right_offset # 0 /\ IsNode(NodeAt(i).right_offset)
              /\ IsNode(NodeAt(i).left_offset)) =>
              NodeAt(NodeAt(i).right_offset).triangle_offset =
                  NodeAt(i).triangle_offset + NodeAt(NodeAt(i).left_offset).triangle_count

\* C16: the build of a file without triangles is no error: it appends one
\* node, with no triangle and no child, the offset given to the build, and
\* the bounds of nothing, +infinity as minimum and -infinity as maximum on
\* every axis; the Model of the next file names the node after it.
C16_EmptyMesh ==
    \A k \in 1..Len(hist) :
        (FaceCount(k) = 0 /\ model_paths[k].defect = "none") =>
            /\ Len(hist) = k => pc # "panic"
            /\ k \in Built =>
                  /\ hist[k].bvh_end = hist[k].bvh_start + 1
                  /\ hist[k].bvh_end <= Len(bvhs)
                  /\ LET n == NodeAt(hist[k].bvh_start)
                     IN  /\ n.triangle_count = 0
                         /\ n.left_offset = 0 /\ n.right_offset = 0
                         /\ n.triangle_offset = hist[k].tri_start
                         /\ n.triangle_offset = FacesBefore(k)
                         /\ n.min_bound = <<INFINITY, INFINITY, INFINITY>>
                         /\ n.max_bound = <<NEG_INFINITY, NEG_INFINITY, NEG_INFINITY>>
                  /\ k + 1 <= Len(models) => models[k + 1].bvh_index = models[k].bvh_index + 1

\* A finished scene of three files, the second without triangles: its node
\* starts at the triangles of the first file, whose tree has three nodes or
\* more, and the third file has its Model.
C16_Witness ==
    /\ pc = "done"
    /\ Len(models) = 3
    /\ FaceCount(2) = 0
    /\ hist[2].tri_start >= 3
    /\ hist[2].bvh_start >= 3
    /\ NodeAt(hist[2].bvh_start).triangle_count = 0
    /\ models[3].bvh_index = hist[2].bvh_start + 1

\* C17: for a file of one or two triangles the build appends one node, a
\* leaf that counts the triangles of the file; no candidate split is
\* evaluated, and the triangles stay in the order of their extraction.
C17_SmallMesh ==
    \A k \in 1..Len(hist) :
        (FaceCount(k) \in 1..MIN_TRIANGLES /\ model_paths[k].defect = "none") =>
            /\ hist[k].tested = 0
            /\ k \in Built =>
                  /\ hist[k].bvh_end = hist[k].bvh_start + 1
                  /\ hist[k].bvh_end <= Len(bvhs)
                  /\ ~HasChildren(hist[k].bvh_start)
                  /\ NodeAt(hist[k].bvh_start).triangle_count = FaceCount(k)
                  /\ hist[k].tri_end = hist[k].tri_start + FaceCount(k)
                  /\ \A f \in 1..FaceCount(k) :
                        LET t == triangles[hist[k].tri_start + f]
                        IN  /\ t.vertices = MovedCorners(k, f)
                            /\ \A j \in 1..3 : t.uv[j] = RawUv(model_paths[k].faces[f][j])

\* A finished scene of two files, the second holding the two different
\* triangles of the first in the other order, so far apart that the best of
\* the candidates would be accepted: it has one node and none was evaluated.
C17_Witness ==
    /\ pc = "done"
    /\ Len(models) = 2
    /\ FaceCount(2) = 2
    /\ model_paths[2].faces[1] # model_paths[2].faces[2]
    /\ model_paths[1].faces = Reverse(model_paths[2].faces)
    /\ hist[2].tested = 0
    /\ hist[2].bvh_end = hist[2].bvh_start + 1
    /\ LET i == hist[2].bvh_start
           tris == SubSeq(triangles, hist[2].tri_start + 1, hist[2].tri_start + 2)
       IN  Accepts(BestSplit(NodeAt(i), tris, 3 * SPLIT_TEST_COUNT).cost, NodeCost(i))

\* The bounding box of the faces at the places S of the k-th file, moved
BoxOfFaces(k, S) ==
    [a \in Axes |->
        LET xs == { MovedCorners(k, f)[v][a] : f \in S, v \in 1..3 }
        IN  [lo |-> MinOf(xs), hi |-> MaxOf(xs)]]

\* Two boxes with no point in common
Apart(b1, b2) == \E a \in Axes : b1[a].hi < b2[a].lo \/ b2[a].hi < b1[a].lo

\* The ways to see the k-th file as two groups of four triangles with
\* disjoint bounding boxes: the places of one of the groups
TwoClusters(k) ==
    IF FaceCount(k) # 8 THEN { }
    ELSE { C \in SUBSET (1..8) :
             /\ Cardinality(C) = 4
             /\ Apart(BoxOfFaces(k, C), BoxOfFaces(k, (1..8) \ C)) }

\* The vertices of the triangles in the range of node i
StoredIn(i) == { triangles[j].vertices : j \in RangeOf(i) }

\* The children of node r hold the faces at the places C of the k-th file on
\* one side and the other faces on the other, four each, in boxes that do
\* not overlap.
Separates(r, k, C) ==
    /\ HasChildren(r)
    /\ IsNode(NodeAt(r).left_offset) /\ IsNode(NodeAt(r).right_offset)
    /\ LET l == NodeAt(r).left_offset
           rt == NodeAt(r).right_offset
       IN  /\ NodeAt(l).triangle_count = 4 /\ NodeAt(rt).triangle_count = 4
           /\ RangeOf(l) \cap RangeOf(rt) = { }
           /\ StoredIn(l) = { MovedCorners(k, f) : f \in C }
           /\ StoredIn(rt) = { MovedCorners(k, f) : f \in (1..8) \ C }
           /\ \E a \in Axes :
                 \/ NodeAt(l).max_bound[a] < NodeAt(rt).min_bound[a]
                 \/ NodeAt(rt).max_bound[a] < NodeAt(l).min_bound[a]

\* C18 as stated: the build of a file of 8 triangles in two groups of 4 with
\* disjoint bounding boxes splits the root, each child holding one group.
C18_ClustersAlwaysSeparated ==
    \A k \in Built :
        TwoClusters(k) # { } =>
            \E C \in TwoClusters(k) : Separates(hist[k].bvh_start, k, C)

\* The triangles of the k-th file in the order of their extraction, as far
\* as the choice of a split reads them
Extracted(k) == [f \in 1..FaceCount(k) |-> [vertices |-> MovedCorners(k, f)]]

\* The split choose_split returns for the root of the k-th file
RootChoice(k) == choose_split(NodeAt(hist[k].bvh_start), Extracted(k))

\* C18: for a file of 8 triangles in two groups of 4 with disjoint bounding
\* boxes, when the cheapest of the sampled candidates has a vertex of every
\* triangle of one group below it and none of the other group, and costs
\* less than 0.9 times the root, the root is split and each child holds
\* the 4 triangles of one group, in ranges and boxes that do not overlap.
C18_SeparatedWhenChosen ==
    \A k \in Built :
        \A C \in TwoClusters(k) :
            (/\ Accepts(RootChoice(k).cost, NodeCost(hist[k].bvh_start))
             /\ \A f \in 1..8 :
                   IsLeft(Extracted(k)[f], RootChoice(k).axis, RootChoice(k).pos) <=> f \in C)
            => Separates(hist[k].bvh_start, k, C)

\* A finished scene whose second file is the one with the groups 2 apart
\* along y, listed in turn: the split of its root moved triangles and its
\* children hold the groups.
C18_Witness ==
    /\ pc = "done"
    /\ Len(models) = 2
    /\ model_paths[2].faces = ApartAlongY
    /\ hist[2].bvh_start \in moved
    /\ Separates(hist[2].bvh_start, 2, {1, 3, 5, 7})
    /\ {1, 3, 5, 7} \in TwoClusters(2)

\* C19: no step of the load of a file, from its extraction through every
\* partition of its build to its return, changes a triangle below the
\* triangle offset of that file, a node below its first node, or a Model
\* appended before.
C19_Frame ==
    [][Len(hist') > 0 =>
          LET cur == hist'[Len(hist')]
          IN  /\ Len(triangles') >= cur.tri_start
              /\ SubSeq(triangles', 1, cur.tri_start) = SubSeq(triangles, 1, cur.tri_start)
              /\ Len(bvhs') >= cur.bvh_start
              /\ SubSeq(bvhs', 1, cur.bvh_start) = SubSeq(bvhs, 1, cur.bvh_start)
              /\ Len(models') >= Len(models)
              /\ SubSeq(models', 1, Len(models)) = models]_vars

\* The build of a second file is under way after a first file whose tree has
\* three nodes or more: a split of the second tree has changed the order of
\* its triangles.
C19_Witness ==
    /\ pc = "split"
    /\ Len(hist) = 2
    /\ Len(models) = 1
    /\ hist[2].tri_start >= 3
    /\ hist[2].bvh_start >= 3
    /\ \E i \in moved : i >= hist[2].bvh_start

\* The triangles in the range of node i, as the array stands
TrisOf(i) ==
    SubSeq(triangles, NodeAt(i).triangle_offset + 1,
           NodeAt(i).triangle_offset + NodeAt(i).triangle_count)

\* cost(left) + cost(right) of the 15 candidates of node i, 5 per axis at
\* the sixths of its extent, those with an empty side (NaN) left out
SampledCosts(i) ==
    { evaluate_split(a, 6 * NodeAt(i).min_bound[a]
                            + k * (NodeAt(i).max_bound[a] - NodeAt(i).min_bound[a]),
                     TrisOf(i)) : a \in Axes, k \in 1..5 } \ { NaN }

\* Some sampled candidate of node i costs less than 0.9 times the node
BelowThreshold(i) == \E c \in SampledCosts(i) : IsFinite(c) /\ 10 * c < 9 * NodeCost(i)

\* C21: once a build is over, a node of more than 2 triangles has children
\* exactly when the cheapest of its 15 sampled candidates costs strictly
\* less than 0.9 times the node itself; a root of more than 2 triangles
\* none of whose candidates is that cheap is the only node of its build, a
\* leaf that covers all the triangles of its file.
C21_AcceptIff ==
    Quiet =>
        /\ \A i \in NodeIds :
              NodeAt(i).triangle_count > 2 => (HasChildren(i) <=> BelowThreshold(i))
        /\ \A k \in Built :
              LET r == hist[k].bvh_start
              IN  (NodeAt(r).triangle_count > 2 /\ ~BelowThreshold(r)) =>
                      /\ hist[k].bvh_end = r + 1
                      /\ ~HasChildren(r)
                      /\ NodeAt(r).triangle_offset = hist[k].tri_start
                      /\ NodeAt(r).triangle_count = FaceCount(k)
                      /\ hist[k].tri_end = hist[k].tri_start + FaceCount(k)

\* A finished scene of two files of 8 triangles: the root of the first has
\* children, the root of the second is the only node of its build, its
\* cheapest candidate costing less than the root but not less than 0.9
\* times the root.
C21_Witness ==
    /\ pc = "done"
    /\ Len(models) = 2
    /\ HasChildren(models[1].bvh_index)
    /\ NodeAt(models[1].bvh_index).triangle_count = 8
    /\ LET r == models[2].bvh_index
       IN  /\ NodeAt(r).triangle_count = 8
           /\ ~HasChildren(r)
           /\ hist[2].bvh_end = r + 1
           /\ SampledCosts(r) # { }
           /\ \E c \in SampledCosts(r) : c < NodeCost(r)
           /\ ~BelowThreshold(r)

\* This step is a call of Bvh::split that takes its split: it partitions its
\* slice, appends the left child and enters the first recursive call.
AcceptedStep ==
    /\ pc = "split"
    /\ stack # << >>
    /\ stack[Len(stack)].phase = "enter"
    /\ Len(stack') = Len(stack) + 1

\* Triangle t has a vertex whose coordinate on the axis is strictly below the
\* position, given in sixths
HasVertexBelow(t, axis, pos) == \E v \in 1..3 : 6 * t.vertices[v][axis] < pos

\* How many places of sq hold x
Occurrences(sq, x) == Cardinality({ j \in 1..Len(sq) : sq[j] = x })

\* C22: the partition pass of an accepted split leaves in the slice the
\* triangles it held, each as many times as before; the first L places hold
\* the triangles with a vertex strictly below the position on the axis, the
\* other places those with no such vertex, and L is the triangle count of
\* the left child appended.
C22_Partition ==
    [][AcceptedStep =>
          LET fr == stack[Len(stack)]
              before == SubSeq(triangles, fr.lo + 1, fr.lo + fr.len)
              after == SubSeq(triangles', fr.lo + 1, fr.lo + fr.len)
              won == hist'[Len(hist')].split
              L == bvhs'[Len(bvhs')].triangle_count
          IN  /\ Len(triangles') = Len(triangles)
              /\ \A j \in 1..fr.len :
                    /\ Occurrences(after, before[j]) = Occurrences(before, before[j])
                    /\ Occurrences(before, after[j]) = Occurrences(after, after[j])
              /\ L \in 0..fr.len
              /\ L = Cardinality({ j \in 1..fr.len : HasVertexBelow(before[j], won.axis, won.pos) })
              /\ \A j \in 1..L : HasVertexBelow(after[j], won.axis, won.pos)
              /\ \A j \in (L + 1)..fr.len : ~HasVertexBelow(after[j], won.axis, won.pos)]_vars

\* A split has just been taken on a slice above the start of the triangle
\* array: the pass changed the order of the slice, and put two triangles or
\* more on each side, one of the left ones reaching across the position.
C22_Witness ==
    /\ pc = "split"
    /\ Len(stack) >= 2
    /\ stack[Len(stack)].phase = "enter"
    /\ stack[Len(stack) - 1].phase = "left"
    /\ LET fr == stack[Len(stack) - 1]
           won == hist[Len(hist)].split
       IN  /\ fr.lo > 0
           /\ fr.left_count >= 2
           /\ fr.len - fr.left_count >= 2
           /\ hist[Len(hist)].node = Len(bvhs) - 2
           /\ (Len(bvhs) - 2) \in moved
           /\ \E j \in (fr.lo + 1)..(fr.lo + fr.left_count), v \in 1..3 :
                 6 * triangles[j].vertices[v][won.axis] >= won.pos

\* The triangles of sq with a vertex strictly below the position, and those
\* with none, each in the order of sq
LeftOnes(sq, axis, pos) == SelectSeq(sq, LAMBDA t : HasVertexBelow(t, axis, pos))
RightOnes(sq, axis, pos) == SelectSeq(sq, LAMBDA t : ~HasVertexBelow(t, axis, pos))

\* C23 as stated: the partition pass of an accepted split keeps the order
\* the left triangles had among themselves, and the order the right
\* triangles had among themselves.
C23_Stable ==
    [][AcceptedStep =>
          LET fr == stack[Len(stack)]
              before == SubSeq(triangles, fr.lo + 1, fr.lo + fr.len)
              after == SubSeq(triangles', fr.lo + 1, fr.lo + fr.len)
              won == hist'[Len(hist')].split
              L == bvhs'[Len(bvhs')].triangle_count
          IN  /\ SubSeq(after, 1, L) = LeftOnes(before, won.axis, won.pos)
              /\ SubSeq(after, L + 1, fr.len) = RightOnes(before, won.axis, won.pos)]_vars

\* C23: the partition pass of an accepted split keeps the order the left
\* triangles had among themselves; the right sub-slice holds the right
\* triangles, in an order that need not be the one they had.
C23_LeftStable ==
    [][AcceptedStep =>
          LET fr == stack[Len(stack)]
              before == SubSeq(triangles, fr.lo + 1, fr.lo + fr.len)
              after == SubSeq(triangles', fr.lo + 1, fr.lo + fr.len)
              won == hist'[Len(hist')].split
              L == bvhs'[Len(bvhs')].triangle_count
              right == RightOnes(before, won.axis, won.pos)
          IN  /\ SubSeq(after, 1, L) = LeftOnes(before, won.axis, won.pos)
              /\ Len(right) = fr.len - L
              /\ \A j \in 1..Len(right) :
                    Occurrences(SubSeq(after, L + 1, fr.len), right[j]) = Occurrences(right, right[j])]_vars

\* The root of a second file has just been split: its left sub-slice holds
\* two different left triangles or more in the order of their extraction,
\* its right sub-slice holds the right triangles in another order than that
\* of their extraction.
C23_Witness ==
    /\ pc = "split"
    /\ Len(hist) = 2
    /\ Len(stack) = 2
    /\ stack[2].phase = "enter"
    /\ stack[1].phase = "left"
    /\ hist[2].node = hist[2].bvh_start
    /\ LET fr == stack[1]
           won == hist[2].split
           now == [j \in 1..fr.len |-> [vertices |-> triangles[fr.lo + j].vertices]]
       IN  /\ fr.len = FaceCount(2)
           /\ fr.left_count >= 2
           /\ now[1] # now[2]
           /\ SubSeq(now, 1, fr.left_count) = LeftOnes(Extracted(2), won.axis, won.pos)
           /\ SubSeq(now, fr.left_count + 1, fr.len) # RightOnes(Extracted(2), won.axis, won.pos)

\* C24: the nodes are appended in depth-first pre-order.  A left child is
\* the node right after its parent.  A right child offset is stored only in
\* a node that has its left child, and the nodes from the left child up to
\* the node before the right child are exactly the left subtree, complete
\* when the right child is appended.  Once a build is over, every subtree
\* is a run of consecutive nodes starting at its root.
C24_PreOrder ==
    \A i \in NodeIds :
        LET n == NodeAt(i)
        IN  /\ n.left_offset # 0 => n.left_offset = i + 1 /\ IsNode(i + 1)
            /\ n.right_offset # 0 =>
                  /\ n.left_offset = i + 1
                  /\ IsNode(n.right_offset)
                  /\ n.right_offset > n.left_offset
                  /\ Reach(n.left_offset) = n.left_offset..(n.right_offset - 1)
                  /\ \A fr \in { stack[d] : d \in 1..Len(stack) } :
                        fr.phase = "enter" \/ fr.start_bvh_len - 1 \notin Reach(n.left_offset)
            /\ Quiet => Reach(i) = i..(i + Cardinality(Reach(i)) - 1)

\* A finished scene with a node, not node 0, both of whose children have
\* children: its left subtree has three nodes, its right child is the node
\* after them, and its subtree is a run of seven nodes.
C24_Witness ==
    /\ pc = "done"
    /\ \E i \in Inner :
          /\ i > 0
          /\ NodeAt(i).left_offset \in Inner
          /\ NodeAt(i).right_offset \in Inner
          /\ NodeAt(i).right_offset = i + 4
          /\ Reach(i) = i..(i + 6)

\* The calls of choose_split the observation holds, one per build: the last
\* made, on a node of more than 2 triangles
SampledCalls ==
    { h \in { hist[k] : k \in 1..Len(hist) } :
        h.node >= 0 /\ IsNode(h.node) /\ NodeAt(h.node).triangle_count > 2 }

\* The call h evaluated 15 candidates, for each axis in turn the positions
\* min + (i/6) * (max - min) for i = 1..5 in this order (positions in sixths)
FiveSixthsPerAxis(h) ==
    /\ h.split.tested = 15
    /\ Len(h.split.sampled) = 15
    /\ \A a \in Axes, i \in 1..5 :
          h.split.sampled[5 * (a - 1) + i] =
              << a, 6 * NodeAt(h.node).min_bound[a]
                      + i * (NodeAt(h.node).max_bound[a] - NodeAt(h.node).min_bound[a]) >>

\* C25 as stated: choose_split on a node of more than 2 triangles evaluates
\* 5 positions per axis, at the sixths of the extent, and each lies strictly
\* between the bounds of the node on its axis.
C25_StrictlyInside ==
    \A h \in SampledCalls :
        /\ FiveSixthsPerAxis(h)
        /\ \A c \in 1..Len(h.split.sampled) :
              LET a == h.split.sampled[c][1]
                  pos == h.split.sampled[c][2]
              IN  6 * NodeAt(h.node).min_bound[a] < pos /\ pos < 6 * NodeAt(h.node).max_bound[a]

\* C25: choose_split on a node of more than 2 triangles evaluates 5
\* positions per axis, at the sixths of the extent; each lies between the
\* bounds of the node on its axis, bounds included, strictly between them
\* exactly when the node has an extent above 0 on that axis, and on the
\* lower bound, which is the upper one, when it has none.
C25_WithinExtent ==
    \A h \in SampledCalls :
        /\ FiveSixthsPerAxis(h)
        /\ \A c \in 1..Len(h.split.sampled) :
              LET a == h.split.sampled[c][1]
                  pos == h.split.sampled[c][2]
                  lo == NodeAt(h.node).min_bound[a]
                  hi == NodeAt(h.node).max_bound[a]
              IN  /\ 6 * lo <= pos /\ pos <= 6 * hi
                  /\ (6 * lo < pos /\ pos < 6 * hi) <=> lo < hi
                  /\ lo = hi => pos = 6 * lo

\* choose_split has just run on a node of more than 2 triangles, not node
\* 0, that has no extent on the first axis and some on the second: the five
\* positions of the first axis are the bound, those of the second differ
\* from each other and from both bounds.
C25_Witness ==
    /\ pc = "split"
    /\ Len(hist) > 0
    /\ hist[Len(hist)] \in SampledCalls
    /\ LET h == hist[Len(hist)]
           n == NodeAt(h.node)
       IN  /\ h.node > 0
           /\ n.min_bound[1] = n.max_bound[1]
           /\ n.min_bound[2] < n.max_bound[2]
           /\ \A i \in 1..5 : h.split.sampled[i] = << 1, 6 * n.min_bound[1] >>
           /\ Cardinality({ h.split.sampled[5 + i][2] : i \in 1..5 }
                            \ { 6 * n.min_bound[2], 6 * n.max_bound[2] }) = 5

\* The calls of Bvh::split that have taken their split and not yet returned
OpenSplits == { stack[d] : d \in 1..Len(stack) } \ { fr \in { stack[d] : d \in 1..Len(stack) } : fr.phase = "enter" }

\* C26: both children of an accepted split hold a triangle or more, hence
\* fewer than their parent.  The candidate a split was accepted with has a
\* triangle on each side and lies on an axis where the node has an extent
\* above 0; a node whose own cost is 0 is never split.
C26_BothSides ==
    /\ \A i \in NodeIds :
          /\ (NodeAt(i).left_offset # 0 /\ IsNode(NodeAt(i).left_offset)) =>
                /\ NodeAt(NodeAt(i).left_offset).triangle_count >= 1
                /\ NodeAt(NodeAt(i).left_offset).triangle_count < NodeAt(i).triangle_count
          /\ (NodeAt(i).right_offset # 0 /\ IsNode(NodeAt(i).right_offset)) =>
                /\ NodeAt(NodeAt(i).right_offset).triangle_count >= 1
                /\ NodeAt(NodeAt(i).right_offset).triangle_count < NodeAt(i).triangle_count
          /\ NodeCost(i) = 0 => ~HasChildren(i)
    /\ \A fr \in OpenSplits :
          /\ fr.left_count >= 1
          /\ fr.bvh_right.triangle_count >= 1
          /\ fr.left_count + fr.bvh_right.triangle_count = fr.len
    /\ \A k \in 1..Len(hist) :
          (hist[k].node >= 0 /\ IsNode(hist[k].node) /\ HasChildren(hist[k].node)) =>
              LET i == hist[k].node
                  won == hist[k].split
              IN  /\ LeftOnes(TrisOf(i), won.axis, won.pos) # << >>
                  /\ RightOnes(TrisOf(i), won.axis, won.pos) # << >>
                  /\ NodeAt(i).min_bound[won.axis] < NodeAt(i).max_bound[won.axis]
                  /\ won.cost # NaN

\* A finished scene in which a node that was split has a child of more than
\* 2 triangles, all of them one point: the child costs 0, has no extent on
\* any axis, each of its 15 candidates leaves a side empty, and it is a leaf.
C26_Witness ==
    /\ pc = "done"
    /\ \E i \in Inner :
          \E c \in { NodeAt(i).left_offset, NodeAt(i).right_offset } :
              /\ NodeAt(c).triangle_count > 2
              /\ NodeCost(c) = 0
              /\ NodeAt(c).min_bound = NodeAt(c).max_bound
              /\ SampledCosts(c) = { }
              /\ ~HasChildren(c)
              /\ \E k \in 1..Len(hist) : hist[k].bvh_start = i /\ hist[k].tested = 30

\* The triangles of the k-th build, and the nodes it has appended so far
SliceLen(k) == (IF k \in Built THEN hist[k].tri_end ELSE Len(triangles)) - hist[k].tri_start
NodesOf(k) == (IF k \in Built THEN hist[k].bvh_end ELSE Len(bvhs)) - hist[k].bvh_start

\* The build running, the last one begun
Running == Len(hist)

\* The nodes a build of n triangles may append: 2n - 1, and 1 for none
MostNodes(n) == IF n >= 1 THEN 2 * n - 1 ELSE 1

\* What is left to do of the running build: twice the nodes it may still
\* append, and the calls of split that have yet to return
Remaining(nodes, st) == 2 * (MostNodes(SliceLen(Running)) - (Len(nodes) - hist[Running].bvh_start)) + Len(st)

\* A build of N >= 1 triangles has appended 2N - 1 nodes at most; the calls
\* of split running inside the first one are N - 1 at most, and the running
\* calls, the first included, are N - 1 at most for N >= 2.
C27_Bounds ==
    \A k \in 1..Len(hist) :
        SliceLen(k) >= 1 =>
            /\ NodesOf(k) <= 2 * SliceLen(k) - 1
            /\ (k = Running /\ stack # << >>) =>
                  /\ Len(stack) - 1 <= SliceLen(k) - 1
                  /\ SliceLen(k) >= 2 => Len(stack) <= SliceLen(k) - 1

\* C27: every build comes to its end, whatever its triangles: while it
\* runs a step of it can always be taken, and every step lowers what is left
\* to do, which is never below 0; and the build stays within the bounds
\* above on its nodes and on the depth of its recursion.
C27_Terminates ==
    [][pc = "split" =>
          /\ stack # << >>
          /\ stack[Len(stack)].phase \in {"enter", "left"}
          /\ C27_Bounds
          /\ C27_Bounds'
          /\ pc' \in {"split", "built", "panic"}
          /\ hist'[Running].bvh_start = hist[Running].bvh_start
          /\ Len(triangles') = Len(triangles)
          /\ Remaining(bvhs, stack) > 0
          /\ Remaining(bvhs', stack') >= 0
          /\ Remaining(bvhs', stack') < Remaining(bvhs, stack)
          /\ pc' = "built" <=> stack' = << >>]_vars

\* The build of a second file of 4 triangles, one of them collapsed to a
\* point, runs 3 calls of split inside each other, after a first file of one
\* triangle whose build appended 2 * 1 - 1 nodes.
C27_Witness ==
    /\ pc = "split"
    /\ Len(hist) = 2
    /\ FaceCount(1) = 1
    /\ NodesOf(1) = 1
    /\ FaceCount(2) = 4
    /\ \E f \in 1..4 : model_paths[2].faces[f] = <<2, 2, 2>>
    /\ Len(stack) = 3

\* A split has just been taken: the call of split on the node of the last
\* choose_split has pushed the left child and entered its first recursive
\* call, the right child waiting among its locals.
JustSplit ==
    /\ pc = "split"
    /\ Len(stack) >= 2
    /\ stack[Len(stack)].phase = "enter"
    /\ stack[Len(stack) - 1].phase = "left"
    /\ hist[Running].node = stack[Len(stack) - 1].start_bvh_len - 1

\* C28: the two children a split builds while it partitions the slice have
\* the triangle counts and the bounds that the loop of evaluate_split gives
\* for the winning axis and position, the empty boxes of that loop being
\* infinite where the children start from the bounds of their parent
\* exchanged; and their costs add up to the cost choose_split returned.
C28_ChildrenAsEvaluated ==
    JustSplit =>
        LET fr == stack[Len(stack) - 1]
            parent == fr.start_bvh_len - 1
            won == hist[Running].split
            left == NodeAt(parent + 1)
            s == SplitSides(won.axis, won.pos, TrisOf(parent), NodeAt(parent).triangle_count)
        IN  /\ NodeAt(parent).left_offset = parent + 1
            /\ left.triangle_count = s.count_left
            /\ << left.min_bound, left.max_bound >> = s.left
            /\ fr.bvh_right.triangle_count = s.count_right
            /\ << fr.bvh_right.min_bound, fr.bvh_right.max_bound >> = s.right
            /\ won.cost = bvh_cost(left.min_bound, left.max_bound, left.triangle_count)
                          + bvh_cost(fr.bvh_right.min_bound, fr.bvh_right.max_bound,
                                     fr.bvh_right.triangle_count)
            /\ IsFinite(won.cost)

\* A split has just been taken on a node, not node 0, with finite bounds
\* that differ on two axes or more: each child has bounds narrower than the
\* node's on the winning axis, and the pass changed the order of the slice.
C28_Witness ==
    /\ JustSplit
    /\ LET fr == stack[Len(stack) - 1]
           parent == fr.start_bvh_len - 1
           won == hist[Running].split
           left == NodeAt(parent + 1)
       IN  /\ parent > 0
           /\ parent \in moved
           /\ Cardinality({ a \in Axes : NodeAt(parent).min_bound[a] < NodeAt(parent).max_bound[a] }) >= 2
           /\ left.max_bound[won.axis] < NodeAt(parent).max_bound[won.axis]
           /\ fr.bvh_right.min_bound[won.axis] > NodeAt(parent).min_bound[won.axis]
           /\ left.triangle_count >= 2
           /\ won.cost > 0

\* C29: no step shortens the node array or changes, for a node already in
\* it, the bounds, the triangle offset or the triangle count.  A child
\* offset changes only from 0, to the index of the node appended in the same
\* step, which is its final value; the left one is written in the step that
\* appends the node after its own, the right one only when the left one is
\* set; no step writes both offsets of a node.
C29_AppendOnly ==
    [][/\ Len(bvhs') >= Len(bvhs)
       /\ \A j \in 1..Len(bvhs) :
             LET old == bvhs[j]
                 new == bvhs'[j]
             IN  /\ new.min_bound = old.min_bound
                 /\ new.max_bound = old.max_bound
                 /\ new.triangle_offset = old.triangle_offset
                 /\ new.triangle_count = old.triangle_count
                 /\ new.left_offset # old.left_offset =>
                       /\ old.left_offset = 0
                       /\ old.right_offset = 0
                       /\ new.right_offset = 0
                       /\ Len(bvhs') = Len(bvhs) + 1
                       /\ new.left_offset = Len(bvhs)
                       /\ j = Len(bvhs)
                 /\ new.right_offset # old.right_offset =>
                       /\ old.right_offset = 0
                       /\ old.left_offset # 0
                       /\ new.left_offset = old.left_offset
                       /\ Len(bvhs') = Len(bvhs) + 1
                       /\ new.right_offset = Len(bvhs)]_vars

\* The tree of a second file is under way: a node has both its child
\* offsets, and its right child, not the node after its left child, has
\* its left offset only.
C29_Witness ==
    /\ pc = "split"
    /\ Len(hist) = 2
    /\ hist[2].bvh_start >= 1
    /\ \E i, j \in NodeIds :
          /\ i >= hist[2].bvh_start
          /\ j > i
          /\ NodeAt(i).left_offset = i + 1
          /\ NodeAt(i).right_offset = j
          /\ j >= i + 2
          /\ NodeAt(j).left_offset = j + 1
          /\ NodeAt(j).right_offset = 0

\* The candidates in the order choose_split evaluates them: axis 0, 1, 2,
\* and inside an axis the fractions 1/6 up to 5/6
InOrder == [c \in 1..15 |-> << ((c - 1) \div 5) + 1, ((c - 1) % 5) + 1 >>]

\* The cost of the c-th candidate of node i, from the loop of evaluate_split
CandidateCost(i, c) ==
    LET a == InOrder[c][1]
        pos == 6 * NodeAt(i).min_bound[a]
                 + InOrder[c][2] * (NodeAt(i).max_bound[a] - NodeAt(i).min_bound[a])
        s == SplitSides(a, pos, TrisOf(i), NodeAt(i).triangle_count)
    IN  IF s.count_left = 0 \/ s.count_right = 0 THEN NaN
        ELSE bvh_cost(s.left[1], s.left[2], s.count_left)
             + bvh_cost(s.right[1], s.right[2], s.count_right)

\* C30: what choose_split returns for a node of more than 2 triangles costs
\* no more than any sampled candidate with a triangle on each side; when
\* there is such a candidate, the one returned is the first in evaluation
\* order among those of the lowest cost, with its axis and its position;
\* when there is none, nothing but an infinite cost is returned.
C30_FirstMinimum ==
    \A h \in SampledCalls :
        LET i == h.node
            two_sided == { c \in 1..15 : CandidateCost(i, c) # NaN }
        IN  /\ \A c \in two_sided : h.split.cost <= CandidateCost(i, c)
            /\ two_sided = { } => h.split.cost = INFINITY
            /\ two_sided # { } =>
                  \E c \in two_sided :
                      /\ h.split.cost = CandidateCost(i, c)
                      /\ \A d \in two_sided : d < c => CandidateCost(i, d) > CandidateCost(i, c)
                      /\ h.split.axis = InOrder[c][1]
                      /\ h.split.pos = 6 * NodeAt(i).min_bound[InOrder[c][1]]
                                       + InOrder[c][2] * (NodeAt(i).max_bound[InOrder[c][1]]
                                                          - NodeAt(i).min_bound[InOrder[c][1]])

\* choose_split has just run on a node of more than 2 triangles where a
\* candidate on the second axis and a later one on the third have the same
\* lowest cost, and an earlier candidate with a triangle on each side costs
\* more: the one on the second axis is returned.
C30_Witness ==
    /\ Len(hist) > 0
    /\ hist[Running] \in SampledCalls
    /\ hist[Running].split.axis = 2
    /\ LET i == hist[Running].node
       IN  \E c \in 6..10, d \in 11..15, e \in 1..5 :
              /\ CandidateCost(i, c) = hist[Running].split.cost
              /\ CandidateCost(i, d) = hist[Running].split.cost
              /\ CandidateCost(i, e) # NaN
              /\ CandidateCost(i, e) > hist[Running].split.cost

====
